---------------------------- MODULE Spec2Model ----------------------------
(***************************************************************************)
(* LEDGERLY: the ledger/balance engine and the membership workflow of the  *)
(* repository, as state machines over the shared store (the tables         *)
(* customers, transactions, organizations, user_profiles, join_requests    *)
(* and the identity service's users).                                      *)
(*                                                                         *)
(* Granularity.  A client handler is a sequence of remote round trips and  *)
(* may be interleaved with other clients at every await; each round trip   *)
(* (one PostgREST request) is one step.  A server procedure runs as one    *)
(* database transaction: apply_debt and apply_payment are one step;        *)
(* approve_join_request and reject_join_request are two, their selects     *)
(* with the checks and then their writes, since at the store's default     *)
(* isolation other transactions may commit between the statements.        *)
(*                                                                         *)
(* Amounts are whole numbers of the smallest currency unit, on which the   *)
(* double arithmetic of the client is exact.                               *)
(***************************************************************************)
EXTENDS Integers, Sequences, FiniteSets, TLC

\* ------------------------------------------------------------------ bounds
MaxAmount == 2
MaxTx == 3
MaxCustomers == 2

Users == {"u1", "u2", "u3"}

\* A signed-in identity can have more than one getProfile call in flight (the
\* App effect runs again on every session event, and the same account can be
\* open on a second device): "u1b" is a second caller with the identity "u1".
Clients == Users \cup {"u1b"}
IdOf(u) == IF u = "u1b" THEN "u1" ELSE u
Orgs == {"o1", "o2"}
Roles == {"ADMIN", "STAFF"}
Usernames == {"ann", "bob"}
Names == {"n1", "n2"}
Phones == {"p1", "p2"}
Amounts == 1..MaxAmount
TxTypes == {"DEBT", "PAYMENT"}

VARIABLES
  \* ---- the store
  customers,      \* id -> [org_id, full_name, phone, balance]   (rows present)
  custSeq,        \* customer ids handed out so far
  transactions,   \* the log: sequence of rows, in insertion order
  txSeq,          \* transaction ids handed out so far
  organizations,  \* org_id -> [name, created_by]
  user_profiles,  \* user id -> [org_id, role, username]
  join_requests,  \* <<user_id, org_id>> -> [role, username, status]
  auth,           \* identity service: user id -> [meta, session]
  rls,            \* TRUE: the row-level policies of the setup script are in force
  \* ---- the clients
  profile,        \* App: the profile state each client holds (getProfile's result)
  pc,             \* each client's position in the handler it is running
  loc,            \* that handler's locals
  listed,         \* CustomersScreen: the customers state (id -> balance)
  detail,         \* CustomerDetailScreen: customer, history
  lastCall,       \* the last completed approve / reject / organisation delete
  won,            \* request -> the procedures that succeeded since PENDING
  signedUpAs,     \* how each identity signed up: "none" | "create" | "join"
  \* ---- the password reset by one-time code
  password_reset_otps,  \* id -> [email, otp_code, verified, expired]
  otpSeq,         \* codes generated so far
  otpLog          \* otp_code -> how often verify and reset succeeded with it

storeVars == <<customers, custSeq, transactions, txSeq>>
otpVars == <<password_reset_otps, otpSeq, otpLog>>
memberVars ==
  <<organizations, user_profiles, join_requests, auth, rls, otpVars>>
histVars == <<lastCall, won, signedUpAs>>
clientVars == <<profile, pc, loc, listed, detail>>
vars == <<customers, custSeq, transactions, txSeq, organizations, user_profiles,
          join_requests, auth, rls, profile, pc, loc, listed, detail, histVars,
          otpVars>>

\* ----------------------------------------------------------------- helpers
EmptyFn == [x \in {} |-> 0]

Abs(x) == IF x < 0 THEN 0 - x ELSE x

Remove(f, S) == [x \in DOMAIN f \ S |-> f[x]]

Range(s) == {s[i] : i \in DOMAIN s}

Perms(n) == {p \in [1..n -> 1..n] : \A i, j \in 1..n : p[i] = p[j] => i = j}

Reverse(s) == [i \in 1..Len(s) |-> s[Len(s) + 1 - i]]

\* Sum of DEBT amounts minus sum of PAYMENT amounts over a set of rows.
RECURSIVE LedgerSum(_)
LedgerSum(rows) ==
  IF rows = {} THEN 0
  ELSE LET r == CHOOSE x \in rows : TRUE
       IN (IF r.tx_type = "DEBT" THEN r.amount ELSE 0 - r.amount)
          + LedgerSum(rows \ {r})

RowsOf(c) == {r \in Range(transactions) : r.customer_id = c}


\* ------------------------------------------------------- ledger: the store
OrgOf(u) == profile[u].org_id

\* App: showApp = session && profile && !isPending && !isRejected
Active(u) == profile[u].status \notin {"NONE", "PENDING", "REJECTED"}

NewTx(org, c, amount, u, type) ==
  [id |-> txSeq + 1, org_id |-> org, customer_id |-> c, user_id |-> u,
   tx_type |-> type, amount |-> amount]

\* The server procedures apply_debt and apply_payment append one row to the log
\* and keep the denormalised customers.balance column in step with it.  The
\* payment procedure takes the amount as given: the only comparison with the
\* balance is the form rule of the detail screen.
InsertTx(org, c, amount, u, type) ==
  /\ txSeq < MaxTx
  /\ txSeq' = txSeq + 1
  /\ transactions' = Append(transactions, NewTx(org, c, amount, u, type))
  /\ customers' =
       IF c \in DOMAIN customers
       THEN [customers EXCEPT ![c].balance =
               IF type = "DEBT" THEN @ + amount ELSE @ - amount]
       ELSE customers
  /\ UNCHANGED custSeq

apply_debt(org, c, amount, u) == InsertTx(org, c, amount, u, "DEBT")

apply_payment(org, c, amount, u) == InsertTx(org, c, amount, u, "PAYMENT")

\* The mutant calls the procedure only when the log holds no row of the same
\* content yet.
addDebt_Dedup(org, c, amount, u) ==
  IF \E r \in Range(transactions) :
       /\ r.org_id = org /\ r.customer_id = c /\ r.user_id = u
       /\ r.tx_type = "DEBT" /\ r.amount = amount
  THEN UNCHANGED storeVars
  ELSE apply_debt(org, c, amount, u)

addDebt(org, c, amount, u) == apply_debt(org, c, amount, u)

recordPayment(org, c, amount, u) == apply_payment(org, c, amount, u)

\* getHistory: the customer's rows of the organisation, newest first.
getHistory(org, c) ==
  Reverse(SelectSeq(transactions,
                    LAMBDA r : r.org_id = org /\ r.customer_id = c))

\* ------------------------------------------- ledger: the balance computation
\* One step of the forEach of listCustomers: DEBT adds, every other row
\* subtracts |amount|.
FoldStep_AddsAll(current, tx) == current + tx.amount

FoldStep(current, tx) ==
  IF tx.tx_type = "DEBT" THEN current + tx.amount
  ELSE current - Abs(tx.amount)

\* balanceByCustomer after the forEach over the fetched rows, in the order
\* the store returned them.  A customer without rows has no entry.
RECURSIVE balanceByCustomer(_)
balanceByCustomer(txs) ==
  IF txs = <<>> THEN EmptyFn
  ELSE LET front == balanceByCustomer(SubSeq(txs, 1, Len(txs) - 1))
           tx == txs[Len(txs)]
           current == IF tx.customer_id \in DOMAIN front
                      THEN front[tx.customer_id] ELSE 0
       IN [c \in DOMAIN front \cup {tx.customer_id} |->
             IF c = tx.customer_id THEN FoldStep(current, tx) ELSE front[c]]

\* hydrated: the computed balance, or the cached column for a customer that
\* has no entry in balanceByCustomer.
Hydrate(ids, cached, byCustomer) ==
  [c \in ids |-> IF c \in DOMAIN byCustomer THEN byCustomer[c] ELSE cached[c]]

\* The two numbers of the client that are no amount: Infinity lies above and
\* NaN below every number a form of the model carries (NaN > 0 is false,
\* Infinity > 0 is true).
Infinity == MaxAmount + 1

NaN == 0 - Infinity

isFinite(value) == value # NaN /\ value # Infinity

\* validation.ts
isPositive(value) == isFinite(value) /\ value > 0

\* What a form's text field holds: nothing, a number, a number followed by
\* other characters, a literal beyond the range of a double, or no number.
AmountTexts ==
  {[kind |-> k, n |-> 0] : k \in {"empty", "junk", "big"}}
  \cup {[kind |-> k, n |-> n] : k \in {"num", "numjunk"}, n \in -1..MaxAmount}

parseFloat(text) ==
  CASE text.kind \in {"num", "numjunk"} -> text.n
    [] text.kind = "big" -> Infinity
    [] OTHER -> NaN

Number(text) ==
  CASE text.kind = "num" -> text.n
    [] text.kind = "empty" -> 0
    [] text.kind = "big" -> Infinity
    [] OTHER -> NaN

\* Math.abs(balance) < 1e-6, on whole amounts.
BelowEpsilon(b) == Abs(b) < 1

\* calculateBalance of the detail screen: a reduce over the held history.
RECURSIVE calculateBalance(_)
calculateBalance(history) ==
  IF history = <<>> THEN 0
  ELSE LET sum == calculateBalance(SubSeq(history, 1, Len(history) - 1))
           tx == history[Len(history)]
       IN IF tx.tx_type = "DEBT" THEN sum + tx.amount
          ELSE IF tx.tx_type = "PAYMENT" THEN sum - Abs(tx.amount)
          ELSE sum

displayBalance(u) ==
  IF Len(detail[u].history) > 0 THEN calculateBalance(detail[u].history)
  ELSE detail[u].balance


\* ------------------------------------------------------ ledger: the clients
Done(op, err) == [op |-> op, err |-> err]

Return(u, op, err) ==
  /\ pc' = [pc EXCEPT ![u] = "idle"]
  /\ loc' = [loc EXCEPT ![u] = Done(op, err)]

\* full_name.ilike.%search% or phone.ilike.%search%, on whole tokens.
Matches(row, search) ==
  search = "" \/ row.full_name = search \/ row.phone = search

\* listCustomers, first round trip: the customers of the organisation.
ListFetchCustomers(u, search, ok) ==
  /\ pc[u] \in {"idle", "save_list"}
  /\ Active(u)
  /\ IF ~ok
     THEN /\ Return(u, "listCustomers", "fetch failed")
          /\ UNCHANGED listed
     ELSE LET ids == {c \in DOMAIN customers :
                        /\ customers[c].org_id = OrgOf(u)
                        /\ Matches(customers[c], search)}
          IN IF ids = {}
             THEN /\ Return(u, "listCustomers", "")
                  /\ listed' = [listed EXCEPT ![u] = EmptyFn]
             ELSE /\ pc' = [pc EXCEPT ![u] = "list_tx"]
                  /\ loc' = [loc EXCEPT ![u] =
                       [ids |-> ids,
                        cached |-> [c \in ids |-> customers[c].balance]]]
                  /\ UNCHANGED listed
  /\ UNCHANGED <<storeVars, memberVars, profile, detail, histVars>>

\* listCustomers, second round trip: the transactions of those customers, in
\* whatever order the store returns them; then the fold and the hydration.
\* The mutant does not throw on txError and goes on with no rows.
ListFetchTxs_NoThrow(u, ok) ==
  /\ pc[u] = "list_tx"
  /\ LET rows == IF ok
                 THEN SelectSeq(transactions,
                                LAMBDA r : r.customer_id \in loc[u].ids)
                 ELSE <<>>
         hydrated == [c \in loc[u].ids |->
                        LedgerSum({r \in Range(rows) : r.customer_id = c})]
         zeroBalanceIds == {c \in loc[u].ids : BelowEpsilon(hydrated[c])}
     IN IF zeroBalanceIds = {}
        THEN /\ Return(u, "listCustomers", "")
             /\ listed' = [listed EXCEPT ![u] = hydrated]
        ELSE /\ pc' = [pc EXCEPT ![u] = "list_del"]
             /\ loc' = [loc EXCEPT ![u] =
                  [hydrated |-> hydrated, zeroBalanceIds |-> zeroBalanceIds]]
             /\ UNCHANGED listed
  /\ UNCHANGED <<storeVars, memberVars, profile, detail, histVars>>

ListFetchTxs(u, ok) ==
  /\ pc[u] = "list_tx"
  /\ IF ~ok
     THEN /\ Return(u, "listCustomers", "fetch failed")
          /\ UNCHANGED listed
     ELSE LET rows == SelectSeq(transactions,
                                LAMBDA r : r.customer_id \in loc[u].ids)
          IN \E p \in Perms(Len(rows)) :
               LET txs == [i \in 1..Len(rows) |-> rows[p[i]]]
                   hydrated == Hydrate(loc[u].ids, loc[u].cached,
                                       balanceByCustomer(txs))
                   zeroBalanceIds == {c \in loc[u].ids : BelowEpsilon(hydrated[c])}
               IN IF zeroBalanceIds = {}
                  THEN /\ Return(u, "listCustomers", "")
                       /\ listed' = [listed EXCEPT ![u] = hydrated]
                  ELSE /\ pc' = [pc EXCEPT ![u] = "list_del"]
                       /\ loc' = [loc EXCEPT ![u] =
                            [hydrated |-> hydrated,
                             zeroBalanceIds |-> zeroBalanceIds]]
                       /\ UNCHANGED listed
  /\ UNCHANGED <<storeVars, memberVars, profile, detail, histVars>>

\* listCustomers, third round trip: the delete of the settled customers (its
\* answer is not inspected), then the return of the others.  The mutant
\* deletes the settled customers' transactions with them.
ListDelete_Cascade(u, ok) ==
  /\ pc[u] = "list_del"
  /\ customers' = IF ok THEN Remove(customers, loc[u].zeroBalanceIds)
                  ELSE customers
  /\ transactions' =
       SelectSeq(transactions,
                 LAMBDA r : r.customer_id \notin loc[u].zeroBalanceIds)
  /\ listed' = [listed EXCEPT ![u] =
       Remove(loc[u].hydrated, loc[u].zeroBalanceIds)]
  /\ Return(u, "listCustomers", "")
  /\ UNCHANGED <<custSeq, txSeq, memberVars, profile, detail, histVars>>

ListDelete(u, ok) ==
  /\ pc[u] = "list_del"
  /\ customers' = IF ok THEN Remove(customers, loc[u].zeroBalanceIds)
                  ELSE customers
  /\ listed' = [listed EXCEPT ![u] =
       Remove(loc[u].hydrated, loc[u].zeroBalanceIds)]
  /\ Return(u, "listCustomers", "")
  /\ UNCHANGED <<custSeq, transactions, txSeq, memberVars, profile, detail, histVars>>

\* The mutant probes on the phone alone.
SaveProbe_PhoneOnly(u, name, phone, debt) ==
  /\ pc[u] = "idle"
  /\ Active(u)
  /\ LET existing == {c \in DOMAIN customers :
                        /\ customers[c].org_id = OrgOf(u)
                        /\ customers[c].phone = phone}
         phoneExists == \E c \in existing : customers[c].phone = phone
         nameExists == \E c \in existing : customers[c].full_name = name
     IN IF existing # {}
        THEN /\ pc' = pc
             /\ loc' = [loc EXCEPT ![u] =
                  [op |-> "onSaveCustomer", err |-> "duplicate",
                   phoneError |-> phoneExists, nameError |-> nameExists]]
        ELSE /\ pc' = [pc EXCEPT ![u] = "save_upsert"]
             /\ loc' = [loc EXCEPT ![u] =
                  [name |-> name, phone |-> phone, debt |-> debt]]
  /\ UNCHANGED <<storeVars, memberVars, profile, listed, detail, histVars>>

\* onSaveCustomer, the duplicate probe on phone or full_name.
SaveProbe(u, name, phone, debt) ==
  /\ pc[u] = "idle"
  /\ Active(u)
  /\ LET existing == {c \in DOMAIN customers :
                        /\ customers[c].org_id = OrgOf(u)
                        /\ (customers[c].phone = phone
                            \/ customers[c].full_name = name)}
         phoneExists == \E c \in existing : customers[c].phone = phone
         nameExists == \E c \in existing : customers[c].full_name = name
     IN IF existing # {}
        THEN /\ pc' = pc
             /\ loc' = [loc EXCEPT ![u] =
                  [op |-> "onSaveCustomer", err |-> "duplicate",
                   phoneError |-> phoneExists, nameError |-> nameExists]]
        ELSE /\ pc' = [pc EXCEPT ![u] = "save_upsert"]
             /\ loc' = [loc EXCEPT ![u] =
                  [name |-> name, phone |-> phone, debt |-> debt]]
  /\ UNCHANGED <<storeVars, memberVars, profile, listed, detail, histVars>>

\* upsertCustomer: insert, or on a row with the same (org_id, phone) update it.
upsertCustomer(org, name, phone, id) ==
  LET same == {c \in DOMAIN customers :
                 customers[c].org_id = org /\ customers[c].phone = phone}
  IN IF same # {}
     THEN /\ id \in same
          /\ customers' = [customers EXCEPT ![id].full_name = name]
          /\ UNCHANGED custSeq
     ELSE /\ custSeq < MaxCustomers
          /\ id = custSeq + 1
          /\ custSeq' = custSeq + 1
          /\ customers' = customers @@
               (id :> [org_id |-> org, full_name |-> name, phone |-> phone,
                       balance |-> 0])

SaveUpsert(u) ==
  /\ pc[u] = "save_upsert"
  /\ \E id \in 1..MaxCustomers :
       /\ upsertCustomer(OrgOf(u), loc[u].name, loc[u].phone, id)
       /\ loc' = [loc EXCEPT ![u] = [cust |-> id, debt |-> loc[u].debt]]
  /\ pc' = [pc EXCEPT ![u] =
       IF loc[u].debt > 0 THEN "save_debt" ELSE "save_list"]
  /\ UNCHANGED <<transactions, txSeq, memberVars, profile, listed, detail, histVars>>

\* onSaveCustomer, the initial debt: the rpc's answer is not inspected.  A
\* number that is not finite is sent as null, which the procedure refuses.
SaveDebt(u, ok) ==
  /\ pc[u] = "save_debt"
  /\ IF ok /\ isFinite(loc[u].debt)
     THEN apply_debt(OrgOf(u), loc[u].cust, loc[u].debt, u)
     ELSE UNCHANGED storeVars
  /\ pc' = [pc EXCEPT ![u] = "save_list"]
  /\ UNCHANGED <<loc, memberVars, profile, listed, detail, histVars>>

\* Opening the detail screen on a listed customer.
OpenDetail(u, c) ==
  /\ pc[u] = "idle"
  /\ c \in DOMAIN listed[u]
  /\ detail' = [detail EXCEPT ![u] =
       [open |-> TRUE, id |-> c, balance |-> listed[u][c], history |-> <<>>]]
  /\ UNCHANGED <<storeVars, memberVars, profile, pc, loc, listed, histVars>>

loadHistory(u) ==
  /\ pc[u] = "idle"
  /\ detail[u].open
  /\ detail' = [detail EXCEPT ![u].history = getHistory(OrgOf(u), detail[u].id)]
  /\ UNCHANGED <<storeVars, memberVars, profile, pc, loc, listed, histVars>>

\* After a successful apply: the new row heads the held history, and
\* loadCustomer re-reads the customers row when it still exists.
AfterApply(u, type, amount) ==
  /\ detail' = [detail EXCEPT
       ![u].history = <<NewTx(OrgOf(u), detail[u].id, amount, u, type)>> \o @,
       ![u].balance = IF detail[u].id \in DOMAIN customers'
                      THEN customers'[detail[u].id].balance ELSE @]
  /\ loc' = [loc EXCEPT ![u] =
       Done(type, IF detail[u].id \in DOMAIN customers' THEN ""
                  ELSE "Failed to reload")]

Refuse(u, type) ==
  /\ loc' = [loc EXCEPT ![u] = Done(type, "Enter a positive amount")]
  /\ UNCHANGED <<storeVars, detail>>

applyDebt(u, amount) ==
  /\ pc[u] = "idle"
  /\ detail[u].open
  /\ IF ~isPositive(amount)
     THEN Refuse(u, "DEBT")
     ELSE /\ addDebt(OrgOf(u), detail[u].id, amount, u)
          /\ AfterApply(u, "DEBT", amount)
  /\ UNCHANGED <<memberVars, profile, pc, listed, histVars>>

\* The form rule of the payment field, against the balance the screen shows.
PaymentRule(u, amount) ==
  isFinite(amount) /\ amount > 0 /\ ~(amount > displayBalance(u))

applyPayment(u, amount) ==
  /\ pc[u] = "idle"
  /\ detail[u].open
  /\ IF ~isPositive(amount)
     THEN Refuse(u, "PAYMENT")
     ELSE /\ PaymentRule(u, amount)
          /\ recordPayment(OrgOf(u), detail[u].id, amount, u)
          /\ AfterApply(u, "PAYMENT", amount)
  /\ UNCHANGED <<memberVars, profile, pc, listed, histVars>>

ListStep(u, searches) ==
  \/ \E search \in searches, ok \in BOOLEAN :
       ListFetchCustomers(u, search, ok)
  \/ \E ok \in BOOLEAN : ListFetchTxs(u, ok)
  \/ \E ok \in BOOLEAN : ListDelete(u, ok)

SaveStep(u, forms) ==
  \/ \E form \in forms, debt \in 0..MaxAmount :
       SaveProbe(u, form[1], form[2], debt)
  \/ SaveUpsert(u)
  \/ \E ok \in BOOLEAN : SaveDebt(u, ok)

DetailStep(u) ==
  \/ \E c \in 1..MaxCustomers : OpenDetail(u, c)
  \/ loadHistory(u)
  \/ \E amount \in Amounts : applyDebt(u, amount)
  \/ \E amount \in Amounts : applyPayment(u, amount)

\* ------------------------------------------ password reset by one-time code
\* The codes are taken to be distinct: the n-th generated code is n.  Time is
\* the passing of a row's expires_at (Expire).  Each procedure is a select
\* followed by its updates in a later statement of the same call (read
\* committed: the select of another call may run in between).
MaxOtps == 2

OtpCodes == 1..MaxOtps

NoOtpLog == [verify |-> 0, reset |-> 0]

InitOtp ==
  /\ password_reset_otps = EmptyFn
  /\ otpSeq = 0
  /\ otpLog = [code \in OtpCodes |-> NoOtpLog]

\* The rows of the table with this email and code.
OtpRows(email, code) ==
  {i \in DOMAIN password_reset_otps :
     /\ password_reset_otps[i].email = email
     /\ password_reset_otps[i].otp_code = code}

otpRest ==
  <<storeVars, organizations, user_profiles, join_requests, auth, rls,
    profile, listed, detail, histVars>>

\* generate_password_reset_otp: the unverified rows of the email are deleted
\* and a row with a new code is inserted.
generate_password_reset_otp(email) ==
  /\ otpSeq < MaxOtps
  /\ otpSeq' = otpSeq + 1
  /\ password_reset_otps' =
       Remove(password_reset_otps,
              {i \in DOMAIN password_reset_otps :
                 /\ password_reset_otps[i].email = email
                 /\ ~password_reset_otps[i].verified})
       @@ ((otpSeq + 1) :> [email |-> email, otp_code |-> otpSeq + 1,
                            verified |-> FALSE, expired |-> FALSE])

sendPasswordResetOTP(u, email) ==
  /\ pc[u] = "idle"
  /\ generate_password_reset_otp(email)
  /\ Return(u, "sendPasswordResetOTP", "")
  /\ UNCHANGED <<otpRest, otpLog>>

\* NOW() passes the expires_at of a row.
Expire(i) ==
  /\ i \in DOMAIN password_reset_otps
  /\ ~password_reset_otps[i].expired
  /\ password_reset_otps' = [password_reset_otps EXCEPT ![i].expired = TRUE]
  /\ UNCHANGED <<otpRest, otpSeq, otpLog, pc, loc>>

\* verify_password_reset_otp, the SELECT EXISTS.
verify_password_reset_otp(email, code) ==
  \E i \in OtpRows(email, code) :
    ~password_reset_otps[i].verified /\ ~password_reset_otps[i].expired

verifyPasswordResetOTP(u, email, code) ==
  /\ pc[u] = "idle"
  /\ pc' = [pc EXCEPT ![u] = "otp_verify"]
  /\ loc' = [loc EXCEPT ![u] =
       [email |-> email, code |-> code,
        is_valid |-> verify_password_reset_otp(email, code)]]
  /\ UNCHANGED <<otpRest, otpVars>>

\* verify_password_reset_otp, the UPDATE and the answer.
verify_password_reset_otp_update(u) ==
  /\ pc[u] = "otp_verify"
  /\ IF loc[u].is_valid
     THEN /\ password_reset_otps' =
               [i \in DOMAIN password_reset_otps |->
                  IF i \in OtpRows(loc[u].email, loc[u].code)
                  THEN [password_reset_otps[i] EXCEPT !.verified = TRUE]
                  ELSE password_reset_otps[i]]
          /\ otpLog' = [otpLog EXCEPT ![loc[u].code].verify = @ + 1]
          /\ Return(u, "verifyPasswordResetOTP", "")
     ELSE /\ Return(u, "verifyPasswordResetOTP", "Invalid or expired OTP")
          /\ UNCHANGED <<password_reset_otps, otpLog>>
  /\ UNCHANGED <<otpRest, otpSeq>>

\* reset_password_after_otp, the SELECT EXISTS and the look-up of the user.
reset_password_after_otp(email, code) ==
  \E i \in OtpRows(email, code) :
    password_reset_otps[i].verified /\ ~password_reset_otps[i].expired

resetPassword(u, email, code) ==
  /\ pc[u] = "idle"
  /\ IF ~reset_password_after_otp(email, code)
     THEN Return(u, "resetPassword", "Invalid or expired OTP")
     ELSE IF email \notin DOMAIN auth
     THEN Return(u, "resetPassword", "User not found")
     ELSE /\ pc' = [pc EXCEPT ![u] = "otp_reset"]
          /\ loc' = [loc EXCEPT ![u] = [email |-> email, code |-> code]]
  /\ UNCHANGED <<otpRest, otpVars>>

\* reset_password_after_otp, the UPDATE of the password and of expires_at.
reset_password_after_otp_update(u) ==
  /\ pc[u] = "otp_reset"
  /\ password_reset_otps' =
       [i \in DOMAIN password_reset_otps |->
          IF i \in OtpRows(loc[u].email, loc[u].code)
          THEN [password_reset_otps[i] EXCEPT !.expired = TRUE]
          ELSE password_reset_otps[i]]
  /\ otpLog' = [otpLog EXCEPT ![loc[u].code].reset = @ + 1]
  /\ Return(u, "resetPassword", "")
  /\ UNCHANGED <<otpRest, otpSeq>>

OtpStep(u, emails) ==
  \/ \E email \in emails : sendPasswordResetOTP(u, email)
  \/ \E email \in emails, code \in OtpCodes :
       verifyPasswordResetOTP(u, email, code)
  \/ verify_password_reset_otp_update(u)
  \/ \E email \in emails, code \in OtpCodes : resetPassword(u, email, code)
  \/ reset_password_after_otp_update(u)

\* ------------------------------------------------------------- the ledger
NoProfile == [status |-> "NONE"]

NoDetail == [open |-> FALSE]

Member(org, role, name) ==
  [org_id |-> org, role |-> role, username |-> name]

Held(u, row) ==
  [id |-> u, org_id |-> row.org_id, role |-> row.role,
   username |-> row.username, status |-> "ACTIVE"]

NoCall ==
  [op |-> "none", caller |-> "none", req |-> <<"none", "none">>,
   success |-> FALSE, message |-> ""]

Meta(org, role, name, joinStatus, joinOrg) ==
  [org_id |-> org, role |-> role, username |-> name,
   join_status |-> joinStatus, join_org_id |-> joinOrg]

\* Two members of one organisation at work: u1 created "o1" at sign-up, u2 was
\* approved into it; nothing recorded yet.
InitLedger ==
  /\ customers = EmptyFn
  /\ custSeq = 0
  /\ transactions = <<>>
  /\ txSeq = 0
  /\ organizations = ("o1" :> [name |-> "o1", created_by |-> "u1"])
  /\ user_profiles = ("u1" :> Member("o1", "ADMIN", "ann"))
                     @@ ("u2" :> Member("o1", "STAFF", "bob"))
  /\ join_requests =
       (<<"u2", "o1">> :> [role |-> "STAFF", username |-> "bob",
                          status |-> "APPROVED"])
  /\ auth = ("u1" :> [meta |-> Meta("o1", "ADMIN", "ann", "ACTIVE", "none"),
                      session |-> TRUE])
            @@ ("u2" :> [meta |-> Meta("o1", "STAFF", "bob", "PENDING", "o1"),
                         session |-> TRUE])
  /\ rls = TRUE
  /\ InitOtp
  /\ profile = [u \in Users |->
       IF u \in DOMAIN user_profiles THEN Held(u, user_profiles[u])
       ELSE NoProfile]
  /\ pc = [u \in Users |-> "idle"]
  /\ loc = [u \in Users |-> Done("", "")]
  /\ listed = [u \in Users |-> EmptyFn]
  /\ detail = [u \in Users |-> NoDetail]
  /\ lastCall = NoCall
  /\ won = [r \in Users \X Orgs |-> {}]
  /\ signedUpAs = [u \in Users |->
       IF u = "u1" THEN "create" ELSE IF u = "u2" THEN "join" ELSE "none"]

\* u1 keeps the customers screen (add, search, list); u2 lists and works on
\* the detail screen of a listed customer.
NextLedger ==
  \/ SaveStep("u1", {<<"n1", "p1">>, <<"n2", "p2">>})
  \/ ListStep("u1", {""})
  \/ ListStep("u2", {""})
  \/ DetailStep("u2")

SpecLedger == InitLedger /\ [][NextLedger]_vars

\* One member alone on the customers screen and the detail screen.
NextSolo ==
  \/ SaveStep("u1", {<<"n1", "p1">>, <<"n2", "p2">>})
  \/ ListStep("u1", {""} \cup Names)
  \/ DetailStep("u1")

SpecSolo == InitLedger /\ [][NextSolo]_vars

\* Two members on the detail screen of one customer, who was added with an
\* initial debt of MaxAmount and has been listed by both.
InitPay ==
  /\ customers = (1 :> [org_id |-> "o1", full_name |-> "n1", phone |-> "p1",
                        balance |-> MaxAmount])
  /\ custSeq = 1
  /\ transactions = <<[id |-> 1, org_id |-> "o1", customer_id |-> 1,
                       user_id |-> "u1", tx_type |-> "DEBT",
                       amount |-> MaxAmount]>>
  /\ txSeq = 1
  /\ organizations = ("o1" :> [name |-> "o1", created_by |-> "u1"])
  /\ user_profiles = ("u1" :> Member("o1", "ADMIN", "ann"))
                     @@ ("u2" :> Member("o1", "STAFF", "bob"))
  /\ join_requests =
       (<<"u2", "o1">> :> [role |-> "STAFF", username |-> "bob",
                          status |-> "APPROVED"])
  /\ auth = ("u1" :> [meta |-> Meta("o1", "ADMIN", "ann", "ACTIVE", "none"),
                      session |-> TRUE])
            @@ ("u2" :> [meta |-> Meta("o1", "STAFF", "bob", "PENDING", "o1"),
                         session |-> TRUE])
  /\ rls = TRUE
  /\ InitOtp
  /\ profile = [u \in Users |->
       IF u \in DOMAIN user_profiles THEN Held(u, user_profiles[u])
       ELSE NoProfile]
  /\ pc = [u \in Users |-> "idle"]
  /\ loc = [u \in Users |-> Done("", "")]
  /\ listed = [u \in Users |->
       IF u \in DOMAIN user_profiles THEN (1 :> MaxAmount) ELSE EmptyFn]
  /\ detail = [u \in Users |-> NoDetail]
  /\ lastCall = NoCall
  /\ won = [r \in Users \X Orgs |-> {}]
  /\ signedUpAs = [u \in Users |->
       IF u = "u1" THEN "create" ELSE IF u = "u2" THEN "join" ELSE "none"]

NextPay == DetailStep("u1") \/ DetailStep("u2")

SpecPay == InitPay /\ [][NextPay]_vars

\* ------------------------------------------------- membership: the store
NameOf(u) == IF u = "u1" THEN "ann" ELSE IF u = "u2" THEN "bob" ELSE "cat"

Request(role, name, status) ==
  [role |-> role, username |-> name, status |-> status]

\* getUserJoinRequest: the status of the caller's request, "null" if no row.
getUserJoinRequest(u, org) ==
  IF <<u, org>> \in DOMAIN join_requests
  THEN join_requests[<<u, org>>].status ELSE "null"

\* createJoinRequest is an upsert on (user_id, org_id).  join_requests has
\* an INSERT policy and no UPDATE policy: with the policies in force the
\* upsert of an existing row is refused, without them it overwrites the row.
createJoinRequestOk(u, org) == <<u, org>> \notin DOMAIN join_requests \/ ~rls

createJoinRequest(u, org, role, name) ==
  IF createJoinRequestOk(u, org)
  THEN /\ join_requests' =
            [r \in DOMAIN join_requests \cup {<<u, org>>} |->
               IF r = <<u, org>> THEN Request(role, name, "PENDING")
               ELSE join_requests[r]]
       /\ won' = [won EXCEPT ![<<u, org>>] = {}]
  ELSE UNCHANGED <<join_requests, won>>

\* approve_join_request / reject_join_request: v_is_admin.  The mutant is
\* the check without the role.
IsAdminOf_AnyRole(caller, org) ==
  /\ caller \in DOMAIN user_profiles
  /\ user_profiles[caller].org_id = org

IsAdminOf(caller, org) ==
  /\ caller \in DOMAIN user_profiles
  /\ user_profiles[caller].org_id = org
  /\ user_profiles[caller].role = "ADMIN"

Answer(op, caller, req, success, message) ==
  [op |-> op, caller |-> caller, req |-> req, success |-> success,
   message |-> message]

\* The profile row approve_join_request writes.  The mutant writes STAFF
\* whatever the request says.
ApprovedProfile_Staff(org, role, username) == Member(org, "STAFF", username)

ApprovedProfile(org, role, username) == Member(org, role, username)

\* The membership procedures run as one transaction each, all or nothing,
\* at the store's default isolation: every statement reads what is
\* committed when it starts, and the writes show at the commit.  A call is
\* therefore two steps, the two selects with their checks and then the
\* writes; other transactions may commit in between.  Only signed-in callers
\* can execute the procedures (GRANT ... TO authenticated), so auth.uid() is
\* never null here.
approve_join_request(caller, req) ==
  IF req \notin DOMAIN join_requests
  THEN /\ lastCall' =
            Answer("approve", caller, req, FALSE, "Join request not found")
       /\ Return(caller, "approveJoinRequest", "Join request not found")
  ELSE IF ~IsAdminOf(caller, req[2])
  THEN /\ lastCall' = Answer("approve", caller, req, FALSE, "Not authorized")
       /\ Return(caller, "approveJoinRequest", "Not authorized")
  ELSE /\ pc' = [pc EXCEPT ![caller] = "ap_write"]
       /\ loc' = [loc EXCEPT ![caller] =
            [req |-> req, role |-> join_requests[req].role,
             username |-> join_requests[req].username]]
       /\ UNCHANGED lastCall

approve_join_request_write(caller) ==
  /\ pc[caller] = "ap_write"
  /\ LET req == loc[caller].req
     IN /\ join_requests' =
             [join_requests EXCEPT ![req].status = "APPROVED"]
        /\ user_profiles' =
             [w \in DOMAIN user_profiles \cup {req[1]} |->
                IF w = req[1]
                THEN ApprovedProfile(req[2], loc[caller].role,
                                     loc[caller].username)
                ELSE user_profiles[w]]
        /\ won' = [won EXCEPT ![req] = @ \cup {"approve"}]
        /\ lastCall' =
             Answer("approve", caller, req, TRUE, "Join request approved")
  /\ Return(caller, "approveJoinRequest", "")
  /\ UNCHANGED <<storeVars, organizations, auth, rls, otpVars, profile, listed, detail,
                 signedUpAs>>

reject_join_request(caller, req) ==
  IF req \notin DOMAIN join_requests
  THEN /\ lastCall' =
            Answer("reject", caller, req, FALSE, "Join request not found")
       /\ Return(caller, "rejectJoinRequest", "Join request not found")
  ELSE IF ~IsAdminOf(caller, req[2])
  THEN /\ lastCall' = Answer("reject", caller, req, FALSE, "Not authorized")
       /\ Return(caller, "rejectJoinRequest", "Not authorized")
  ELSE /\ pc' = [pc EXCEPT ![caller] = "rj_write"]
       /\ loc' = [loc EXCEPT ![caller] = [req |-> req]]
       /\ UNCHANGED lastCall

reject_join_request_write(caller) ==
  /\ pc[caller] = "rj_write"
  /\ LET req == loc[caller].req
     IN /\ join_requests' =
             [join_requests EXCEPT ![req].status = "REJECTED"]
        /\ won' = [won EXCEPT ![req] = @ \cup {"reject"}]
        /\ lastCall' =
             Answer("reject", caller, req, TRUE, "Join request rejected")
  /\ Return(caller, "rejectJoinRequest", "")
  /\ UNCHANGED <<storeVars, organizations, user_profiles, auth, rls, otpVars, profile,
                 listed, detail, signedUpAs>>

\* joinRequests service: the rpc call; the wrapper throws unless the answer
\* says success.
approveJoinRequest(caller, req) ==
  /\ pc[caller] = "idle"
  /\ caller \in DOMAIN auth /\ auth[caller].session
  /\ approve_join_request(caller, req)
  /\ UNCHANGED <<storeVars, memberVars, profile, listed, detail, won,
                 signedUpAs>>

rejectJoinRequest(caller, req) ==
  /\ pc[caller] = "idle"
  /\ caller \in DOMAIN auth /\ auth[caller].session
  /\ reject_join_request(caller, req)
  /\ UNCHANGED <<storeVars, memberVars, profile, listed, detail, won,
                 signedUpAs>>

\* ----------------------------------------------- membership: the clients
\* auth service, signUp: the identity and its metadata first; with a live
\* session the rows follow, a join request on the join path, else the
\* organisation row and the caller's profile.  `joining` only records which
\* path the user chose on the screen.
signUp(u, orgId, orgName, role, isJoinRequest, hasSession, joining) ==
  /\ pc[u] = "idle"
  /\ u \notin DOMAIN auth
  /\ auth' = auth @@
       (u :> [meta |-> Meta(orgId, role, NameOf(u),
                            IF isJoinRequest THEN "PENDING" ELSE "ACTIVE",
                            IF isJoinRequest THEN orgId ELSE "none"),
              session |-> hasSession])
  /\ signedUpAs' = [signedUpAs EXCEPT ![u] =
                      IF joining THEN "join" ELSE "create"]
  /\ IF hasSession
     THEN /\ pc' = [pc EXCEPT ![u] =
                      IF isJoinRequest THEN "su_join" ELSE "su_org"]
          /\ loc' = [loc EXCEPT ![u] =
               [orgId |-> orgId, orgName |-> orgName, role |-> role]]
     ELSE Return(u, "signUp", "")
  /\ UNCHANGED <<storeVars, organizations, user_profiles, join_requests, rls, otpVars,
                 profile, listed, detail, lastCall, won>>

signUpJoin(u) ==
  /\ pc[u] = "su_join"
  /\ createJoinRequest(u, loc[u].orgId, loc[u].role, NameOf(u))
  /\ Return(u, "signUp",
            IF createJoinRequestOk(u, loc[u].orgId) THEN ""
            ELSE "join request refused")
  /\ UNCHANGED <<storeVars, organizations, user_profiles, auth, rls, otpVars, profile,
                 listed, detail, lastCall, signedUpAs>>

\* upsert into organizations on org_id; orgError is thrown.
signUpOrg(u, ok) ==
  /\ pc[u] = "su_org"
  /\ IF ok
     THEN /\ organizations' =
               [o \in DOMAIN organizations \cup {loc[u].orgId} |->
                  IF o = loc[u].orgId
                  THEN [name |-> loc[u].orgName, created_by |-> u]
                  ELSE organizations[o]]
          /\ pc' = [pc EXCEPT ![u] = "su_profile"]
          /\ UNCHANGED loc
     ELSE /\ Return(u, "signUp", "request failed")
          /\ UNCHANGED organizations
  /\ UNCHANGED <<storeVars, user_profiles, join_requests, auth, rls, otpVars, profile,
                 listed, detail, histVars>>

\* insert into user_profiles: a second row for the same id is refused;
\* profileError is thrown.
signUpProfile(u, ok) ==
  /\ pc[u] = "su_profile"
  /\ IF ~ok
     THEN /\ Return(u, "signUp", "request failed")
          /\ UNCHANGED user_profiles
     ELSE IF u \in DOMAIN user_profiles
     THEN /\ Return(u, "signUp", "duplicate key")
          /\ UNCHANGED user_profiles
     ELSE /\ user_profiles' =
               user_profiles @@
                 (u :> Member(loc[u].orgId, loc[u].role, NameOf(u)))
          /\ Return(u, "signUp", "")
  /\ UNCHANGED <<storeVars, organizations, join_requests, auth, rls, otpVars, profile,
                 listed, detail, histVars>>

\* SignUpScreen, onSubmit: a generated id for a new organisation, the typed
\* id when joining one; signUp is called with six arguments either way.
SignUpScreen_onSubmit(u, isJoiningOrg, orgId, role, hasSession) ==
  /\ isJoiningOrg \/ orgId \notin DOMAIN organizations
  /\ signUp(u, orgId, IF isJoiningOrg THEN orgId ELSE "new", role, FALSE,
            hasSession, isJoiningOrg)

signIn(u) ==
  /\ pc[u] = "idle"
  /\ u \in DOMAIN auth /\ ~auth[u].session
  /\ auth' = [auth EXCEPT ![u].session = TRUE]
  /\ UNCHANGED <<storeVars, organizations, user_profiles, join_requests, rls, otpVars,
                 clientVars, histVars>>

\* App, handleSignOut.
signOut(u) ==
  /\ pc[u] = "idle"
  /\ u \in DOMAIN auth /\ auth[u].session
  /\ auth' = [auth EXCEPT ![u].session = FALSE]
  /\ profile' = [profile EXCEPT ![u] = NoProfile]
  /\ UNCHANGED <<storeVars, organizations, user_profiles, join_requests, rls, otpVars,
                 pc, loc, listed, detail, histVars>>

SignUpStep(u) ==
  \/ signUpJoin(u)
  \/ \E ok \in BOOLEAN : signUpOrg(u, ok)
  \/ \E ok \in BOOLEAN : signUpProfile(u, ok)
  \/ signIn(u)
  \/ signOut(u)

\* The pseudo-profile getProfile returns for a request that is not approved.
Pseudo(u, meta, status) ==
  [id |-> u, org_id |-> meta.join_org_id, role |-> meta.role,
   username |-> meta.username, status |-> status]

\* A stored row as the client holds it when the code adds no status.
Plain(u, row) ==
  [id |-> u, org_id |-> row.org_id, role |-> row.role,
   username |-> row.username, status |-> "UNSET"]

\* auth service, getProfile: the caller's profile row; a stored row is
\* returned ACTIVE.  Without one the join flow or the creation flow follows,
\* on the metadata read at the start.
getProfile(u) ==
  /\ pc[u] = "idle"
  /\ IdOf(u) \in DOMAIN auth /\ auth[IdOf(u)].session
  /\ IF IdOf(u) \in DOMAIN user_profiles
     THEN /\ profile' = [profile EXCEPT ![u] = Held(IdOf(u), user_profiles[IdOf(u)])]
          /\ Return(u, "getProfile", "")
     ELSE /\ pc' = [pc EXCEPT ![u] =
                      IF auth[IdOf(u)].meta.join_org_id # "none" THEN "gp_req"
                      ELSE "gp_insert"]
          /\ loc' = [loc EXCEPT ![u] = [meta |-> auth[IdOf(u)].meta]]
          /\ UNCHANGED profile
  /\ UNCHANGED <<storeVars, memberVars, listed, detail, histVars>>

\* join flow: the stored request decides; the metadata only when no row is
\* stored.
getProfileRequest(u) ==
  /\ pc[u] = "gp_req"
  /\ LET meta == loc[u].meta
         existingRequest == getUserJoinRequest(u, meta.join_org_id)
         effectiveStatus == IF existingRequest # "null" THEN existingRequest
                            ELSE meta.join_status
     IN IF existingRequest = "null" /\ meta.join_status = "PENDING"
        THEN /\ pc' = [pc EXCEPT ![u] = "gp_create"]
             /\ UNCHANGED <<loc, profile>>
        ELSE IF effectiveStatus = "APPROVED"
        THEN /\ pc' = [pc EXCEPT ![u] = "gp_upsert"]
             /\ UNCHANGED <<loc, profile>>
        ELSE /\ profile' = [profile EXCEPT ![u] =
                  Pseudo(u, meta, IF effectiveStatus = "REJECTED"
                                  THEN "REJECTED" ELSE "PENDING")]
             /\ Return(u, "getProfile", "")
  /\ UNCHANGED <<storeVars, memberVars, listed, detail, histVars>>

getProfileCreate(u) ==
  /\ pc[u] = "gp_create"
  /\ LET meta == loc[u].meta
     IN /\ createJoinRequest(u, meta.join_org_id, meta.role, meta.username)
        /\ IF createJoinRequestOk(u, meta.join_org_id)
           THEN /\ profile' = [profile EXCEPT ![u] = Pseudo(u, meta, "PENDING")]
                /\ Return(u, "getProfile", "")
           ELSE /\ Return(u, "getProfile", "join request refused")
                /\ UNCHANGED profile
  /\ UNCHANGED <<storeVars, organizations, user_profiles, auth, rls, otpVars, listed,
                 detail, lastCall, signedUpAs>>

\* approved: upsert of the caller's profile from the metadata.
getProfileUpsert(u) ==
  /\ pc[u] = "gp_upsert"
  /\ LET meta == loc[u].meta
         row == Member(meta.join_org_id, meta.role, meta.username)
     IN /\ user_profiles' =
             [w \in DOMAIN user_profiles \cup {u} |->
                IF w = u THEN row ELSE user_profiles[w]]
        /\ loc' = [loc EXCEPT ![u] = [meta |-> meta, inserted |-> row]]
  /\ pc' = [pc EXCEPT ![u] = "gp_meta"]
  /\ UNCHANGED <<storeVars, organizations, join_requests, auth, rls, otpVars, profile,
                 listed, detail, histVars>>

\* updateUser({join_status: "APPROVED"}), then the ACTIVE profile.
getProfileMeta(u) ==
  /\ pc[u] = "gp_meta"
  /\ auth' = [auth EXCEPT ![u].meta.join_status = "APPROVED"]
  /\ profile' = [profile EXCEPT ![u] = Held(u, loc[u].inserted)]
  /\ Return(u, "getProfile", "")
  /\ UNCHANGED <<storeVars, organizations, user_profiles, join_requests, rls, otpVars,
                 listed, detail, histVars>>

\* creation flow: insert of the caller's profile from the metadata; the
\* inserted row is returned as it is.
getProfileInsert(u) ==
  /\ pc[u] = "gp_insert"
  /\ IF IdOf(u) \in DOMAIN user_profiles
     THEN /\ Return(u, "getProfile", "duplicate key")
          /\ UNCHANGED <<user_profiles, profile>>
     ELSE LET meta == loc[u].meta
              row == Member(meta.org_id, meta.role, meta.username)
          IN /\ user_profiles' = user_profiles @@ (IdOf(u) :> row)
             /\ profile' = [profile EXCEPT ![u] = Plain(IdOf(u), row)]
             /\ Return(u, "getProfile", "")
  /\ UNCHANGED <<storeVars, organizations, join_requests, auth, rls, otpVars, listed,
                 detail, histVars>>

GetProfileStep(u) ==
  \/ getProfile(u)
  \/ getProfileRequest(u)
  \/ getProfileCreate(u)
  \/ getProfileUpsert(u)
  \/ getProfileMeta(u)
  \/ getProfileInsert(u)

\* services/auth.ts, getProfile: the stored row as it is; without one a
\* profile is inserted from the metadata's org_id, role and username.
auth_getProfile(u) ==
  /\ pc[u] = "idle"
  /\ IdOf(u) \in DOMAIN auth /\ auth[IdOf(u)].session
  /\ IF IdOf(u) \in DOMAIN user_profiles
     THEN /\ profile' = [profile EXCEPT ![u] = Plain(IdOf(u), user_profiles[IdOf(u)])]
          /\ Return(u, "auth_getProfile", "")
     ELSE /\ pc' = [pc EXCEPT ![u] = "ag_insert"]
          /\ loc' = [loc EXCEPT ![u] = [meta |-> auth[IdOf(u)].meta]]
          /\ UNCHANGED profile
  /\ UNCHANGED <<storeVars, memberVars, listed, detail, histVars>>

auth_getProfileInsert(u) ==
  /\ pc[u] = "ag_insert"
  /\ IF IdOf(u) \in DOMAIN user_profiles
     THEN /\ Return(u, "auth_getProfile", "duplicate key")
          /\ UNCHANGED <<user_profiles, profile>>
     ELSE LET meta == loc[u].meta
              row == Member(meta.org_id, meta.role, meta.username)
          IN /\ user_profiles' = user_profiles @@ (IdOf(u) :> row)
             /\ profile' = [profile EXCEPT ![u] = Plain(IdOf(u), row)]
             /\ Return(u, "auth_getProfile", "")
  /\ UNCHANGED <<storeVars, organizations, join_requests, auth, rls, otpVars, listed,
                 detail, histVars>>

\* ProfileScreen, handleDeleteOrg (the button is rendered for a held ADMIN
\* profile): the password check, then three deletes by the held org_id, then
\* sign-out.  user_profiles has no DELETE policy: with the policies in
\* force that delete removes no row and reports no error.
\* The mutant goes on to the deletes whatever signInWithPassword answered.
handleDeleteOrg_NoVerify(u, hasEmail, passwordOk) ==
  /\ pc[u] = "idle"
  /\ u \in DOMAIN auth /\ auth[u].session
  /\ Active(u) /\ profile[u].role = "ADMIN"
  /\ IF ~hasEmail
     THEN Return(u, "handleDeleteOrg", "No email found for verification")
     ELSE /\ pc' = [pc EXCEPT ![u] = "del_tx"]
          /\ UNCHANGED loc
  /\ UNCHANGED <<storeVars, memberVars, profile, listed, detail, histVars>>

handleDeleteOrg(u, hasEmail, passwordOk) ==
  /\ pc[u] = "idle"
  /\ u \in DOMAIN auth /\ auth[u].session
  /\ Active(u) /\ profile[u].role = "ADMIN"
  /\ IF ~hasEmail
     THEN Return(u, "handleDeleteOrg", "No email found for verification")
     ELSE IF ~passwordOk
     THEN Return(u, "handleDeleteOrg", "Password is incorrect")
     ELSE /\ pc' = [pc EXCEPT ![u] = "del_tx"]
          /\ UNCHANGED loc
  /\ UNCHANGED <<storeVars, memberVars, profile, listed, detail, histVars>>

\* A delete that the store answers with an error removes nothing; the catch
\* of handleDeleteOrg shows the message and the caller stays signed in.
deleteOrgTransactions(u, ok) ==
  /\ pc[u] = "del_tx"
  /\ IF ok
     THEN /\ transactions' =
               SelectSeq(transactions,
                         LAMBDA tx : tx.org_id # profile[u].org_id)
          /\ pc' = [pc EXCEPT ![u] = "del_cust"]
          /\ UNCHANGED loc
     ELSE /\ Return(u, "handleDeleteOrg", "Delete failed")
          /\ UNCHANGED transactions
  /\ UNCHANGED <<customers, custSeq, txSeq, memberVars, profile, listed,
                 detail, histVars>>

deleteOrgCustomers(u, ok) ==
  /\ pc[u] = "del_cust"
  /\ IF ok
     THEN /\ customers' =
               Remove(customers, {c \in DOMAIN customers :
                                    customers[c].org_id = profile[u].org_id})
          /\ pc' = [pc EXCEPT ![u] = "del_prof"]
          /\ UNCHANGED loc
     ELSE /\ Return(u, "handleDeleteOrg", "Delete failed")
          /\ UNCHANGED customers
  /\ UNCHANGED <<custSeq, transactions, txSeq, memberVars, profile, listed,
                 detail, histVars>>

deleteOrgProfiles(u, ok) ==
  /\ pc[u] = "del_prof"
  /\ IF ok
     THEN /\ user_profiles' =
               IF rls THEN user_profiles
               ELSE Remove(user_profiles,
                           {w \in DOMAIN user_profiles :
                              user_profiles[w].org_id = profile[u].org_id})
          /\ lastCall' =
               Answer("deleteOrg", u, <<u, profile[u].org_id>>, TRUE, "")
          /\ auth' = [auth EXCEPT ![u].session = FALSE]
          /\ profile' = [profile EXCEPT ![u] = NoProfile]
          /\ Return(u, "handleDeleteOrg", "")
     ELSE /\ Return(u, "handleDeleteOrg", "Delete failed")
          /\ UNCHANGED <<user_profiles, lastCall, auth, profile>>
  /\ UNCHANGED <<storeVars, organizations, join_requests, rls, otpVars, listed, detail,
                 won, signedUpAs>>

DeleteOrgStep(u) ==
  \/ \E hasEmail, passwordOk \in BOOLEAN :
       handleDeleteOrg(u, hasEmail, passwordOk)
  \/ \E ok \in BOOLEAN : deleteOrgTransactions(u, ok)
  \/ \E ok \in BOOLEAN : deleteOrgCustomers(u, ok)
  \/ \E ok \in BOOLEAN : deleteOrgProfiles(u, ok)

\* --------------------------------------------------------- the membership
\* Nobody has signed up yet; the deployment either has the row-level
\* policies of the setup script in force or it has not.
InitMember ==
  /\ customers = EmptyFn
  /\ custSeq = 0
  /\ transactions = <<>>
  /\ txSeq = 0
  /\ organizations = EmptyFn
  /\ user_profiles = EmptyFn
  /\ join_requests = EmptyFn
  /\ auth = EmptyFn
  /\ rls \in BOOLEAN
  /\ InitOtp
  /\ profile = [u \in Users |-> NoProfile]
  /\ pc = [u \in Users |-> "idle"]
  /\ loc = [u \in Users |-> Done("", "")]
  /\ listed = [u \in Users |-> EmptyFn]
  /\ detail = [u \in Users |-> NoDetail]
  /\ lastCall = NoCall
  /\ won = [r \in Users \X Orgs |-> {}]
  /\ signedUpAs = [u \in Users |-> "none"]

MemberStep(u, orgs, roles) ==
  \/ \E isJoiningOrg, hasSession \in BOOLEAN, orgId \in orgs, role \in roles :
       SignUpScreen_onSubmit(u, isJoiningOrg, orgId, role, hasSession)
  \/ \E hasSession \in BOOLEAN, orgId \in orgs, role \in roles :
       signUp(u, orgId, orgId, role, TRUE, hasSession, TRUE)
  \/ SignUpStep(u)
  \/ GetProfileStep(u)
  \/ auth_getProfile(u)
  \/ auth_getProfileInsert(u)

TeamStep(u, reqs) ==
  \/ \E req \in reqs : approveJoinRequest(u, req)
  \/ \E req \in reqs : rejectJoinRequest(u, req)
  \/ approve_join_request_write(u)
  \/ reject_join_request_write(u)

\* A creator and a joiner from nothing: u1 signs up for a new organisation
\* "o1", u2 signs up to join it, u1 decides on u2's request.
NextJoin ==
  \/ MemberStep("u1", {"o1"}, {"ADMIN"})
  \/ MemberStep("u2", {"o1"}, Roles)
  \/ TeamStep("u1", {<<"u2", "o1">>})

SpecJoin == InitMember /\ [][NextJoin]_vars

\* A team at work: u1 created "o1", u2 joined it and was approved as a second
\* ADMIN; u3 has not signed up yet.
InitTeam ==
  /\ customers = EmptyFn
  /\ custSeq = 0
  /\ transactions = <<>>
  /\ txSeq = 0
  /\ organizations = ("o1" :> [name |-> "new", created_by |-> "u1"])
  /\ user_profiles = ("u1" :> Member("o1", "ADMIN", "ann"))
                     @@ ("u2" :> Member("o1", "ADMIN", "bob"))
  /\ join_requests = (<<"u2", "o1">> :> Request("ADMIN", "bob", "APPROVED"))
  /\ auth = ("u1" :> [meta |-> Meta("o1", "ADMIN", "ann", "ACTIVE", "none"),
                      session |-> TRUE])
            @@ ("u2" :> [meta |-> Meta("o1", "ADMIN", "bob", "PENDING", "o1"),
                         session |-> TRUE])
  /\ rls \in BOOLEAN
  /\ InitOtp
  /\ profile = [u \in Users |->
       IF u \in DOMAIN user_profiles THEN Held(u, user_profiles[u])
       ELSE NoProfile]
  /\ pc = [u \in Users |-> "idle"]
  /\ loc = [u \in Users |-> Done("", "")]
  /\ listed = [u \in Users |-> EmptyFn]
  /\ detail = [u \in Users |-> NoDetail]
  /\ lastCall = NoCall
  /\ won = [r \in Users \X Orgs |->
              IF r = <<"u2", "o1">> THEN {"approve"} ELSE {}]
  /\ signedUpAs = [u \in Users |->
       IF u = "u1" THEN "create" ELSE IF u = "u2" THEN "join" ELSE "none"]

\* u3 signs up and loads its profile while the two admins decide on its
\* requests and u1 may delete the organisation.
NextTeam ==
  \/ MemberStep("u3", {"o1"}, Roles)
  \/ \E u \in Users : TeamStep(u, {<<"u3", "o1">>})
  \/ DeleteOrgStep("u1")

SpecTeam == InitTeam /\ [][NextTeam]_vars

\* The decisions alone: u3 asks to join "o1" through the join path of the
\* auth service and loads its profile while the two admins decide.
NextDecide ==
  \/ \E hasSession \in BOOLEAN, role \in Roles :
       signUp("u3", "o1", "o1", role, TRUE, hasSession, TRUE)
  \/ signUpJoin("u3")
  \/ signIn("u3")
  \/ getProfile("u3")
  \/ getProfileRequest("u3")
  \/ getProfileCreate("u3")
  \/ getProfileUpsert("u3")
  \/ getProfileMeta("u3")
  \/ \E u \in {"u1", "u2"} : TeamStep(u, {<<"u3", "o1">>})

SpecDecide == InitTeam /\ [][NextDecide]_vars

\* ------------------------------------------------------------------ claims
\* The balances a listCustomers pass has computed once its transaction fetch
\* has returned: the hydrated list while the delete is pending, the returned
\* list otherwise.
Hydrated(u) == IF pc[u] = "list_del" THEN loc[u].hydrated ELSE listed[u]

FetchedTxs(u) ==
  /\ pc[u] = "list_tx"
  /\ pc'[u] # "list_tx"
  /\ ~(pc'[u] = "idle" /\ loc'[u].err = "fetch failed")

C2_PaymentWithinBalance ==
  [][Len(transactions') > Len(transactions) =>
       LET tx == transactions'[Len(transactions')]
       IN tx.tx_type = "PAYMENT" =>
            tx.amount <= LedgerSum(RowsOf(tx.customer_id))]_vars

\* ------------------------------------------------------ membership claims
StatusOf(req) ==
  IF req \in DOMAIN join_requests THEN join_requests[req].status ELSE "null"

AdminInStore(u, org) ==
  /\ u \in DOMAIN user_profiles
  /\ user_profiles[u].org_id = org
  /\ user_profiles[u].role = "ADMIN"

\* The profile row of u is written in this step.
ProfileWritten(u) ==
  /\ u \in DOMAIN user_profiles'
  /\ u \in DOMAIN user_profiles => user_profiles'[u] # user_profiles[u]

\* C3: a user who signed up to join an existing organisation has a profile
\* only if the join request for that user and organisation is APPROVED, and
\* the sign-up on the join path creates no organisation row.
C3_JoinerProfileOnlyAfterApproval ==
  \A u \in Users :
    signedUpAs[u] = "join" =>
      /\ \A o \in DOMAIN organizations : organizations[o].created_by # u
      /\ u \in DOMAIN user_profiles =>
           StatusOf(<<u, auth[u].meta.org_id>>) = "APPROVED"

\* C4: getProfile answers PENDING or REJECTED as the stored request says, and
\* either version of it writes the profile of an identity whose metadata
\* names a join organisation only while the stored request is APPROVED.
C4_GetProfileWritesOnlyForApproved ==
  [][\A u \in Users :
       LET req == <<u, auth[u].meta.join_org_id>>
       IN /\ (/\ pc[u] = "gp_req"
              /\ pc'[u] = "idle"
              /\ req \in DOMAIN join_requests)
               => profile'[u].status = join_requests[req].status
          /\ (/\ pc[u] \in {"gp_upsert", "gp_insert", "ag_insert"}
              /\ ProfileWritten(u)
              /\ auth[u].meta.join_org_id # "none")
               => StatusOf(req) = "APPROVED"]_vars

\* The call of approve or reject by c on request req is decided in this step:
\* it is answered with a failure or goes on to its writes.
Called(c, req) ==
  /\ pc[c] = "idle"
  /\ \/ pc'[c] \in {"ap_write", "rj_write"} /\ loc'[c].req = req
     \/ /\ lastCall' # lastCall
        /\ lastCall'.op \in {"approve", "reject"}
        /\ lastCall'.caller = c
        /\ lastCall'.req = req

\* C5: a caller who is not an ADMIN of the request's organisation (STAFF
\* there, or without a profile there) gets "Not authorized" from approve and
\* from reject, and neither the request nor any profile changes.
C5_NonAdminIsRefused ==
  [][\A c \in Users, req \in DOMAIN join_requests :
       (Called(c, req) /\ ~AdminInStore(c, req[2])) =>
          /\ pc'[c] = "idle"
          /\ ~lastCall'.success
          /\ lastCall'.message = "Not authorized"
          /\ UNCHANGED <<join_requests, user_profiles>>]_vars

\* C5 witness: a STAFF member of the request's organisation has called a
\* membership procedure on a stored request and has been refused.
C5_Witness ==
  /\ lastCall.op \in {"approve", "reject"}
  /\ lastCall.message = "Not authorized"
  /\ lastCall.req \in DOMAIN join_requests
  /\ lastCall.caller \in DOMAIN user_profiles
  /\ user_profiles[lastCall.caller] =
       Member(lastCall.req[2], "STAFF", NameOf(lastCall.caller))
  /\ loc[lastCall.caller].err = "Not authorized"

\* C6: a request is approved or rejected, and a profile is written by
\* approve, only in a step in which the caller holds an ADMIN profile of the
\* request's organisation in the store.
C6_DecisionOnlyByCurrentAdmin ==
  [][\A c \in Users :
       (pc[c] \in {"ap_write", "rj_write"} /\ pc'[c] = "idle") =>
          AdminInStore(c, loc[c].req[2])]_vars

\* C7: once a request is REJECTED, an approve of it fails or changes nothing:
\* the request stays REJECTED and the requester's profile is as it was.
C7_NoApproveAfterReject ==
  [][\A c \in Users :
       (/\ pc[c] = "ap_write"
        /\ pc'[c] = "idle"
        /\ StatusOf(loc[c].req) = "REJECTED") =>
          /\ join_requests'[loc[c].req].status = "REJECTED"
          /\ ~ProfileWritten(loc[c].req[1])]_vars

\* C8: of the approves and rejects of one pending request exactly one
\* succeeds, and when a decision is written the requester has a profile in
\* the organisation exactly if the request is then APPROVED.
C8_ExactlyOneDecisionWins ==
  [][\A c \in Users :
       (pc[c] \in {"ap_write", "rj_write"} /\ pc'[c] = "idle") =>
          LET req == loc[c].req
          IN /\ Cardinality(won'[req]) = 1
             /\ (/\ req[1] \in DOMAIN user_profiles'
                 /\ user_profiles'[req[1]].org_id = req[2])
                  <=> join_requests'[req].status = "APPROVED"]_vars

\* C9: the status of a request changes at most once, from PENDING; an
\* APPROVED or REJECTED request keeps its status, and its row stays.
C9_TerminalStatusIsFinal ==
  [][\A req \in DOMAIN join_requests :
       join_requests[req].status \in {"APPROVED", "REJECTED"} =>
          StatusOf(req)' = join_requests[req].status]_vars

\* getProfile of u is called in this step: it returns at once or goes on.
GetProfileCalled(u) ==
  /\ pc[u] = "idle"
  /\ u \in DOMAIN auth' /\ auth'[u].session
  /\ \/ pc'[u] \in {"gp_req", "gp_insert"}
     \/ /\ pc'[u] = "idle"
        /\ loc'[u].op = "getProfile"
        /\ <<loc'[u], profile'[u]>> # <<loc[u], profile[u]>>

\* C10: when the last membership call is the successful approve of u's
\* request for an organisation, getProfile of u returns at once the ACTIVE
\* profile in that organisation with the role and username of the request.
C10_ApprovedProfileIsActive ==
  [][\A u \in Users :
       (/\ GetProfileCalled(u)
        /\ lastCall.op = "approve"
        /\ lastCall.success
        /\ lastCall.req[1] = u) =>
          /\ pc'[u] = "idle"
          /\ profile'[u] =
               [id |-> u, org_id |-> lastCall.req[2],
                role |-> join_requests[lastCall.req].role,
                username |-> join_requests[lastCall.req].username,
                status |-> "ACTIVE"]]_vars

\* C10 witness: u3 asked to join as ADMIN, was approved, and its client holds
\* the ACTIVE ADMIN profile getProfile returned.
C10_Witness ==
  /\ lastCall = Answer("approve", lastCall.caller, <<"u3", "o1">>, TRUE,
                       "Join request approved")
  /\ join_requests[<<"u3", "o1">>] = Request("ADMIN", "cat", "APPROVED")
  /\ pc["u3"] = "idle"
  /\ loc["u3"] = Done("getProfile", "")
  /\ profile["u3"] =
       [id |-> "u3", org_id |-> "o1", role |-> "ADMIN", username |-> "cat",
        status |-> "ACTIVE"]

\* C11: in every state, a request that is APPROVED has the requester's
\* profile row in the request's organisation.
C11_ApprovedHasProfile ==
  \A req \in DOMAIN join_requests :
    join_requests[req].status = "APPROVED" =>
      /\ req[1] \in DOMAIN user_profiles
      /\ user_profiles[req[1]].org_id = req[2]

\* The balances a listCustomers pass recomputes for the customers it has
\* fetched: the log's sum, the stored column for a customer without rows.
Recomputed(u) ==
  IF pc[u] = "list_del" THEN loc[u].hydrated
  ELSE [c \in loc[u].ids |->
          IF RowsOf(c) = {} THEN loc[u].cached[c] ELSE LedgerSum(RowsOf(c))]

\* listCustomers returns in this step after both of its fetches succeeded.
ListReturned(u) ==
  /\ pc[u] \in {"list_tx", "list_del"}
  /\ pc'[u] = "idle"
  /\ loc'[u].err = ""

\* C12: when a listCustomers pass returns after both fetches succeeded, every
\* fetched customer whose recomputed balance is below the threshold is absent
\* from the returned list and its customers row is gone, and every other
\* fetched customer is returned with its recomputed balance.
C12_SettledCustomersArePruned ==
  [][\A u \in Users :
       ListReturned(u) =>
         \A c \in DOMAIN Recomputed(u) :
           IF BelowEpsilon(Recomputed(u)[c])
           THEN c \notin DOMAIN listed'[u] /\ c \notin DOMAIN customers'
           ELSE c \in DOMAIN listed'[u] /\ listed'[u][c] = Recomputed(u)[c]]_vars

\* ------------------------------------------- an organisation being deleted
\* As InitPay, on a deployment with or without the row-level policies: the
\* admin u1 may delete the organisation while u2 lists the customers and
\* works on the detail screen.
InitWipe ==
  /\ customers = (1 :> [org_id |-> "o1", full_name |-> "n1", phone |-> "p1",
                        balance |-> MaxAmount])
  /\ custSeq = 1
  /\ transactions = <<[id |-> 1, org_id |-> "o1", customer_id |-> 1,
                       user_id |-> "u1", tx_type |-> "DEBT",
                       amount |-> MaxAmount]>>
  /\ txSeq = 1
  /\ organizations = ("o1" :> [name |-> "o1", created_by |-> "u1"])
  /\ user_profiles = ("u1" :> Member("o1", "ADMIN", "ann"))
                     @@ ("u2" :> Member("o1", "STAFF", "bob"))
  /\ join_requests = (<<"u2", "o1">> :> Request("STAFF", "bob", "APPROVED"))
  /\ auth = ("u1" :> [meta |-> Meta("o1", "ADMIN", "ann", "ACTIVE", "none"),
                      session |-> TRUE])
            @@ ("u2" :> [meta |-> Meta("o1", "STAFF", "bob", "PENDING", "o1"),
                         session |-> TRUE])
  /\ rls \in BOOLEAN
  /\ InitOtp
  /\ profile = [u \in Users |->
       IF u \in DOMAIN user_profiles THEN Held(u, user_profiles[u])
       ELSE NoProfile]
  /\ pc = [u \in Users |-> "idle"]
  /\ loc = [u \in Users |-> Done("", "")]
  /\ listed = [u \in Users |->
       IF u \in DOMAIN user_profiles THEN (1 :> MaxAmount) ELSE EmptyFn]
  /\ detail = [u \in Users |-> NoDetail]
  /\ lastCall = NoCall
  /\ won = [r \in Users \X Orgs |->
              IF r = <<"u2", "o1">> THEN {"approve"} ELSE {}]
  /\ signedUpAs = [u \in Users |->
       IF u = "u1" THEN "create" ELSE IF u = "u2" THEN "join" ELSE "none"]

NextWipe ==
  \/ DeleteOrgStep("u1")
  \/ ListStep("u2", {""})
  \/ DetailStep("u2")

SpecWipe == InitWipe /\ [][NextWipe]_vars

\* ----------------------------------------------------------- ledger claims
\* No client is at the transactions delete of an organisation deletion.
NoOrgDelete == \A u \in Users : pc[u] # "del_tx"

\* listCustomers deletes the customers row of c in this step.
Pruned(u, c) ==
  /\ pc[u] = "list_del"
  /\ pc'[u] = "idle"
  /\ c \in loc[u].zeroBalanceIds
  /\ c \in DOMAIN customers
  /\ c \notin DOMAIN customers'

\* C13: apart from the transactions delete of an organisation deletion, every
\* step keeps every row of the log as it is, new rows only being appended;
\* and when listCustomers prunes a customer, getHistory of that customer
\* returns after the step all the rows it returned before.
C13_LogIsAppendOnly ==
  [][/\ NoOrgDelete =>
          /\ Len(transactions') >= Len(transactions)
          /\ SubSeq(transactions', 1, Len(transactions)) = transactions
     /\ \A u \in Users, c \in 1..MaxCustomers :
          Pruned(u, c) =>
            /\ getHistory(OrgOf(u), c)' = getHistory(OrgOf(u), c)
            /\ Len(getHistory(OrgOf(u), c)') = Cardinality(RowsOf(c))]_vars

\* C13 witness: a listing pruned a customer whose log has a debt and a
\* payment; the customers row is gone and both rows are in its history.
C13_Witness ==
  \E u \in Users, c \in 1..MaxCustomers :
    /\ pc[u] = "idle"
    /\ loc[u] = Done("listCustomers", "")
    /\ c \notin DOMAIN customers
    /\ Len(getHistory(OrgOf(u), c)) >= 2
    /\ LedgerSum(RowsOf(c)) = 0

\* A listCustomers pass ends in this step with the fetch error, and neither
\* the store nor the list the screen holds has changed.
ListFailed(u) ==
  /\ pc'[u] = "idle"
  /\ loc'[u] = Done("listCustomers", "fetch failed")
  /\ UNCHANGED <<customers, transactions, listed>>

\* C14: a listCustomers pass whose customer fetch or transaction fetch fails
\* ends there with the error and deletes nothing; a customers row disappears
\* only in the delete step of a pass, which follows a successful
\* transaction fetch.
C14_NoPruneOnFailedFetch ==
  [][\A u \in Users :
       /\ (\/ \E search \in {""} \cup Names :
                ListFetchCustomers(u, search, FALSE)
           \/ ListFetchTxs(u, FALSE)) => ListFailed(u)
       /\ DOMAIN customers \ DOMAIN customers' # {} =>
            \E w \in Users : pc[w] \in {"list_del", "del_cust"}
       /\ pc'[u] = "list_del" /\ pc[u] # "list_del" =>
            pc[u] = "list_tx" /\ ListFetchTxs(u, TRUE)]_vars

\* C14 witness: a pass has failed at a fetch while a settled customer, with
\* rows in the log, was stored; the customer is still stored.
C14_Witness ==
  \E u \in Users, c \in DOMAIN customers :
    /\ pc[u] = "idle"
    /\ loc[u] = Done("listCustomers", "fetch failed")
    /\ customers[c].org_id = OrgOf(u)
    /\ RowsOf(c) # {}
    /\ LedgerSum(RowsOf(c)) = 0

\* C15: what a listCustomers pass decides for a fetched customer is fixed by
\* the customer's rows in the log alone, whatever the stored balance column
\* holds: the customer is to be pruned exactly if the log's sum is below the
\* threshold (as it is for a customer without rows), and is listed with the
\* log's sum otherwise.
C15_ListingIgnoresCachedBalance ==
  [][\A u \in Users :
       FetchedTxs(u) =>
         \A c \in loc[u].ids :
           LET fromLog == LedgerSum(RowsOf(c))
           IN IF BelowEpsilon(fromLog)
              THEN pc'[u] = "list_del" /\ c \in loc'[u].zeroBalanceIds
              ELSE Hydrated(u)'[c] = fromLog]_vars

\* ------------------------------------------------ a log with a foreign row
\* The tags a row of the transactions table may carry when the table has
\* another writer than this client: the two the client knows, and one more.
StoredTypes == TxTypes \cup {"REFUND"}

\* As InitPay, with a second row on customer 1 that the client did not write.
InitForeign ==
  /\ customers = (1 :> [org_id |-> "o1", full_name |-> "n1", phone |-> "p1",
                        balance |-> MaxAmount])
  /\ custSeq = 1
  /\ \E type \in StoredTypes, amount \in Amounts :
       transactions = <<[id |-> 1, org_id |-> "o1", customer_id |-> 1,
                         user_id |-> "u1", tx_type |-> "DEBT",
                         amount |-> MaxAmount],
                        [id |-> 2, org_id |-> "o1", customer_id |-> 1,
                         user_id |-> "u2", tx_type |-> type,
                         amount |-> amount]>>
  /\ txSeq = 2
  /\ organizations = ("o1" :> [name |-> "o1", created_by |-> "u1"])
  /\ user_profiles = ("u1" :> Member("o1", "ADMIN", "ann"))
                     @@ ("u2" :> Member("o1", "STAFF", "bob"))
  /\ join_requests = (<<"u2", "o1">> :> Request("STAFF", "bob", "APPROVED"))
  /\ auth = ("u1" :> [meta |-> Meta("o1", "ADMIN", "ann", "ACTIVE", "none"),
                      session |-> TRUE])
            @@ ("u2" :> [meta |-> Meta("o1", "STAFF", "bob", "PENDING", "o1"),
                         session |-> TRUE])
  /\ rls = TRUE
  /\ InitOtp
  /\ profile = [u \in Users |->
       IF u \in DOMAIN user_profiles THEN Held(u, user_profiles[u])
       ELSE NoProfile]
  /\ pc = [u \in Users |-> "idle"]
  /\ loc = [u \in Users |-> Done("", "")]
  /\ listed = [u \in Users |->
       IF u \in DOMAIN user_profiles THEN (1 :> MaxAmount) ELSE EmptyFn]
  /\ detail = [u \in Users |-> NoDetail]
  /\ lastCall = NoCall
  /\ won = [r \in Users \X Orgs |->
              IF r = <<"u2", "o1">> THEN {"approve"} ELSE {}]
  /\ signedUpAs = [u \in Users |->
       IF u = "u1" THEN "create" ELSE IF u = "u2" THEN "join" ELSE "none"]

NextForeign ==
  \/ ListStep("u1", {""})
  \/ DetailStep("u1")
  \/ DetailStep("u2")

SpecForeign == InitForeign /\ [][NextForeign]_vars

\* The rows of a sequence whose tag the client knows.
KnownRows(txs) == SelectSeq(txs, LAMBDA r : r.tx_type \in TxTypes)

\* C16: a row whose tx_type is neither DEBT nor PAYMENT makes the balance
\* computation report an error.  A listCustomers pass that fetched such a row
\* ends with an error and lists nothing new, and the detail view does not show
\* for a history holding such a row the balance of the history without it.
C16_ForeignTypeIsAnError ==
  [][\A u \in Users :
       /\ (/\ FetchedTxs(u)
           /\ \E r \in Range(transactions) :
                r.customer_id \in loc[u].ids /\ r.tx_type \notin TxTypes)
          => /\ pc'[u] = "idle"
             /\ loc'[u].err # ""
             /\ listed'[u] = listed[u]
       /\ (/\ detail'[u].open
           /\ KnownRows(detail'[u].history) # detail'[u].history)
          => calculateBalance(detail'[u].history)
               # calculateBalance(KnownRows(detail'[u].history))]_vars

\* A successful applyDebt or applyPayment of u (addDebt / recordPayment
\* returned a row).
Applied(u) ==
  \E amount \in Amounts : applyDebt(u, amount) \/ applyPayment(u, amount)

Signed(tx) == IF tx.tx_type = "DEBT" THEN tx.amount ELSE 0 - tx.amount

SaveForm(u, forms, texts) ==
  \/ \E form \in forms, text \in texts :
       SaveProbe(u, form[1], form[2], parseFloat(text))
  \/ SaveUpsert(u)
  \/ \E ok \in BOOLEAN : SaveDebt(u, ok)

DetailForm(u, texts) ==
  \/ \E c \in 1..MaxCustomers : OpenDetail(u, c)
  \/ loadHistory(u)
  \/ \E text \in texts : applyDebt(u, Number(text))
  \/ \E text \in texts : applyPayment(u, Number(text))

NextForms ==
  \/ SaveForm("u1", {<<"n1", "p1">>}, AmountTexts)
  \/ ListStep("u1", {""})
  \/ DetailForm("u1", AmountTexts)

SpecForms == InitLedger /\ [][NextForms]_vars

\* C18: every row of the log has a finite amount above 0, and each path that
\* applies a transaction turns a non-finite or non-positive amount down
\* before it calls the store: applyDebt and applyPayment leave the store
\* as it is, and onSaveCustomer comes to its apply_debt call only with a
\* finite amount above 0.
C18_OnlyPositiveFiniteAmounts ==
  [][/\ \A r \in Range(transactions') : isPositive(r.amount)
     /\ \A u \in Users :
          /\ \A text \in AmountTexts :
               (/\ ~isPositive(Number(text))
                /\ applyDebt(u, Number(text)) \/ applyPayment(u, Number(text)))
               => UNCHANGED storeVars
          /\ (pc[u] # "save_debt" /\ pc'[u] = "save_debt")
               => isPositive(loc'[u].debt)]_vars

\* ------------------------------------------------------ the add-customer form
\* A member filling the add-customer form with every name and phone, the list
\* being reloaded after each save, and a second member saving one customer
\* once.
NextSave ==
  \/ SaveStep("u1", Names \X Phones)
  \/ ListStep("u1", {""})
  \/ SaveStep("u2", {<<"n1", "p1">>})

SpecSave == InitLedger /\ [][NextSave]_vars

PhoneTaken(u, phone) ==
  \E c \in DOMAIN customers :
    customers[c].org_id = OrgOf(u) /\ customers[c].phone = phone

NameTaken(u, name) ==
  \E c \in DOMAIN customers :
    customers[c].org_id = OrgOf(u) /\ customers[c].full_name = name

\* C19: onSaveCustomer called with a phone or a full_name that a customer of
\* the caller's organisation has ends at once, leaves the customers table
\* as it is, and marks the phone field exactly if the phone is taken and the
\* fullName field exactly if the name is taken; the call goes on to its upsert
\* only when neither is taken.
C19_DuplicateIsRejectedByField ==
  [][\A u \in Users :
       /\ \A name \in Names, phone \in Phones, debt \in 0..MaxAmount :
            (/\ SaveProbe(u, name, phone, debt)
             /\ PhoneTaken(u, phone) \/ NameTaken(u, name))
            => /\ customers' = customers
               /\ pc'[u] = "idle"
               /\ loc'[u].err = "duplicate"
               /\ loc'[u].phoneError = PhoneTaken(u, phone)
               /\ loc'[u].nameError = NameTaken(u, name)
       /\ (pc[u] # "save_upsert" /\ pc'[u] = "save_upsert")
            => /\ ~PhoneTaken(u, loc'[u].phone)
               /\ ~NameTaken(u, loc'[u].name)]_vars

\* A save was turned down for its name alone, and the customer that has the
\* name kept its phone.
C19_Witness ==
  \E u \in Users :
    /\ pc[u] = "idle"
    /\ loc[u] = [op |-> "onSaveCustomer", err |-> "duplicate",
                 phoneError |-> FALSE, nameError |-> TRUE]
    /\ \E c \in DOMAIN customers :
         customers[c].full_name = "n1" /\ customers[c].phone = "p1"
    /\ ~ \E c \in DOMAIN customers : customers[c].phone = "p2"

\* Some client is within the deletes of an organisation deletion.
Deleting == \E w \in Users : pc[w] \in {"del_tx", "del_cust", "del_prof"}

\* C20: handleDeleteOrg comes to its deletes only from a call in which the
\* email was found and signInWithPassword succeeded; a call in which either
\* failed ends with the error, changes nothing in the store and leaves the
\* caller's session as it was; and no row of transactions or user_profiles is
\* deleted, and no customer outside a prune, but within those deletes.
C20_DeleteNeedsFreshPassword ==
  [][/\ \A u \in Users :
          /\ \A hasEmail, passwordOk \in BOOLEAN :
               (/\ handleDeleteOrg(u, hasEmail, passwordOk)
                /\ ~(hasEmail /\ passwordOk))
               => /\ UNCHANGED <<storeVars, memberVars>>
                  /\ pc'[u] = "idle"
                  /\ loc'[u].op = "handleDeleteOrg" /\ loc'[u].err # ""
                  /\ auth'[u].session
          /\ (pc[u] # "del_tx" /\ pc'[u] = "del_tx")
               => handleDeleteOrg(u, TRUE, TRUE)
     /\ (\/ Len(transactions') < Len(transactions)
         \/ DOMAIN user_profiles \ DOMAIN user_profiles' # {})
        => Deleting
     /\ DOMAIN customers \ DOMAIN customers' # {}
        => Deleting \/ \E w \in Users : pc[w] = "list_del"]_vars

\* The admin gave a wrong password: the call ended with the error, the
\* organisation's rows are all there and the admin is still signed in.
C20_Witness ==
  /\ pc["u1"] = "idle"
  /\ loc["u1"] = Done("handleDeleteOrg", "Password is incorrect")
  /\ auth["u1"].session
  /\ Len(transactions) > 0
  /\ 1 \in DOMAIN customers
  /\ {"u1", "u2"} \subseteq DOMAIN user_profiles

\* ------------------------------------------------ two admins of one organisation
\* As InitWipe, with u2 approved into o1 as a second ADMIN.
InitAdmins ==
  /\ customers = (1 :> [org_id |-> "o1", full_name |-> "n1", phone |-> "p1",
                        balance |-> MaxAmount])
  /\ custSeq = 1
  /\ transactions = <<[id |-> 1, org_id |-> "o1", customer_id |-> 1,
                       user_id |-> "u1", tx_type |-> "DEBT",
                       amount |-> MaxAmount]>>
  /\ txSeq = 1
  /\ organizations = ("o1" :> [name |-> "o1", created_by |-> "u1"])
  /\ user_profiles = ("u1" :> Member("o1", "ADMIN", "ann"))
                     @@ ("u2" :> Member("o1", "ADMIN", "bob"))
  /\ join_requests = (<<"u2", "o1">> :> Request("ADMIN", "bob", "APPROVED"))
  /\ auth = ("u1" :> [meta |-> Meta("o1", "ADMIN", "ann", "ACTIVE", "none"),
                      session |-> TRUE])
            @@ ("u2" :> [meta |-> Meta("o1", "ADMIN", "bob", "PENDING", "o1"),
                         session |-> TRUE])
  /\ rls \in BOOLEAN
  /\ InitOtp
  /\ profile = [u \in Users |->
       IF u \in DOMAIN user_profiles THEN Held(u, user_profiles[u])
       ELSE NoProfile]
  /\ pc = [u \in Users |-> "idle"]
  /\ loc = [u \in Users |-> Done("", "")]
  /\ listed = [u \in Users |->
       IF u \in DOMAIN user_profiles THEN (1 :> MaxAmount) ELSE EmptyFn]
  /\ detail = [u \in Users |-> NoDetail]
  /\ lastCall = NoCall
  /\ won = [r \in Users \X Orgs |->
              IF r = <<"u2", "o1">> THEN {"approve"} ELSE {}]
  /\ signedUpAs = [u \in Users |->
       IF u = "u1" THEN "create" ELSE IF u = "u2" THEN "join" ELSE "none"]

NextAdmins ==
  \/ DeleteOrgStep("u1")
  \/ DeleteOrgStep("u2")
  \/ SaveStep("u2", {<<"n2", "p2">>})
  \/ ListStep("u2", {""})

SpecAdmins == InitAdmins /\ [][NextAdmins]_vars

\* The stored profile of u makes u an ADMIN of org.
AdminInStoreOf(u, org) ==
  /\ u \in DOMAIN user_profiles
  /\ user_profiles[u].org_id = org
  /\ user_profiles[u].role = "ADMIN"

\* A delete of handleDeleteOrg, called by u, removes rows in this step.
OrgDeleteRemoves(u) ==
  /\ pc[u] \in {"del_tx", "del_cust", "del_prof"}
  /\ pc'[u] # pc[u]
  /\ \/ Len(transactions') < Len(transactions)
     \/ DOMAIN customers \ DOMAIN customers' # {}
     \/ DOMAIN user_profiles \ DOMAIN user_profiles' # {}

\* C21: a delete of an organisation deletion removes rows only when its
\* caller's stored profile is, at that moment, an ADMIN profile of the
\* organisation.
C21_OnlyStoredAdminDeletes ==
  [][\A u \in Users :
       OrgDeleteRemoves(u) => AdminInStoreOf(u, profile[u].org_id)]_vars

\* C22: when handleDeleteOrg has ended with the error of one of its deletes,
\* no row of the organisation was removed by it: the organisation still has
\* its transactions (which nothing but an organisation deletion removes) and
\* its members' profiles.
C22_FailedDeleteRemovesNothing ==
  \A u \in Users :
    (pc[u] = "idle" /\ loc[u] = Done("handleDeleteOrg", "Delete failed"))
    => /\ \E r \in Range(transactions) : r.org_id = profile[u].org_id
       /\ \A w \in {"u1", "u2"} :
            w \in DOMAIN user_profiles
            /\ user_profiles[w].org_id = profile[u].org_id

\* C23: when a signUp that creates an organisation (live session, not a join
\* request) ends, the organisation's row written for the caller and the
\* caller's profile in it are both stored or both absent, and the caller has
\* no join request for it.
C23_CreateOrgIsAtomic ==
  [][\A u \in Users :
       (pc[u] \in {"su_org", "su_profile"} /\ pc'[u] = "idle")
       => LET o == loc[u].orgId
          IN /\ (/\ o \in DOMAIN organizations'
                 /\ organizations'[o].created_by = u)
                <=> (/\ u \in DOMAIN user_profiles'
                     /\ user_profiles'[u].org_id = o)
             /\ <<u, o>> \notin DOMAIN join_requests']_vars

\* ------------------------------------------------------- the one-time codes
\* Two callers resetting the password of u1, and time passing.
NextOtp ==
  \/ \E u \in {"u1", "u2"} : OtpStep(u, {"u1"})
  \/ \E i \in OtpCodes : Expire(i)

SpecOtp == InitLedger /\ [][NextOtp]_vars

\* C24: with one generated code, verify_password_reset_otp succeeds at most
\* once and reset_password_after_otp succeeds at most once.
C24_OtpIsSingleUse ==
  \A code \in OtpCodes : otpLog[code].verify <= 1 /\ otpLog[code].reset <= 1

\* C25: the initial-debt step of onSaveCustomer either appends one DEBT row
\* of the typed amount for the customer just saved, or ends the call with an
\* error.
C25_InitialDebtIsRecordedOrReported ==
  [][\A u \in Users :
       (pc[u] = "save_debt" /\ pc'[u] # "save_debt")
       => \/ /\ Len(transactions') = Len(transactions) + 1
             /\ SubSeq(transactions', 1, Len(transactions)) = transactions
             /\ transactions'[Len(transactions')].customer_id = loc[u].cust
             /\ transactions'[Len(transactions')].tx_type = "DEBT"
             /\ transactions'[Len(transactions')].amount = loc[u].debt
          \/ /\ pc'[u] = "idle"
             /\ loc'[u].err # ""
             /\ transactions' = transactions]_vars

\* C26: listCustomers prunes no customer that has no transaction: a customer
\* saved without an initial debt keeps its row through every listing until
\* rows have been recorded for it.
C26_NoPruneWithoutTransactions ==
  [][\A u \in Users : \A c \in DOMAIN customers :
       Pruned(u, c) => RowsOf(c) # {}]_vars

\* ---------------------------------------------- listing against applying
\* One member saving a customer and applying debts and payments, while a
\* second member lists the customers.
NextRace ==
  \/ SaveStep("u1", {<<"n1", "p1">>})
  \/ ListStep("u1", {""})
  \/ DetailStep("u1")
  \/ ListStep("u2", {""})

SpecRace == InitLedger /\ [][NextRace]_vars

\* C27: when listCustomers deletes a customers row, the customer's rows in
\* the log sum to zero at that moment.
C27_PrunedOnlyWhenSettled ==
  [][\A u \in Users : \A c \in DOMAIN customers :
       Pruned(u, c) => BelowEpsilon(LedgerSum(RowsOf(c)))]_vars

\* C28: under every interleaving of onSaveCustomer calls no two customers of
\* an organisation have the same full_name, and the upsert of a call changes
\* no row that was stored before it.
C28_ProbeAndUpsertAreOneStep ==
  [][/\ \A c, d \in DOMAIN customers' :
          (c # d /\ customers'[c].org_id = customers'[d].org_id)
          => customers'[c].full_name # customers'[d].full_name
     /\ \A u \in Users :
          (pc[u] = "save_upsert" /\ pc'[u] # "save_upsert")
          => \A c \in DOMAIN customers : customers'[c] = customers[c]]_vars

\* --------------------------------------------- after an organisation deletion
\* The admin deletes the organisation and signs in again; the admin and the
\* member load their profiles; the member works on the detail screen.
NextReturn ==
  \/ DeleteOrgStep("u1")
  \/ signIn("u1")
  \/ \E u \in {"u1", "u2"} : getProfile(u)
  \/ getProfileInsert("u1")
  \/ getProfileRequest("u2")
  \/ getProfileUpsert("u2")
  \/ getProfileMeta("u2")
  \/ DetailStep("u2")

SpecReturn == InitWipe /\ [][NextReturn]_vars

\* No row of org in transactions, customers or user_profiles.
OrgGone(org) ==
  /\ \A r \in Range(transactions) : r.org_id # org
  /\ \A c \in DOMAIN customers : customers[c].org_id # org
  /\ \A w \in DOMAIN user_profiles : user_profiles[w].org_id # org

\* C29: once handleDeleteOrg has completed for an organisation, the
\* organisation has no row in transactions, customers or user_profiles, then
\* and at any later time.
C29_DeletedOrgStaysDeleted ==
  (lastCall.op = "deleteOrg" /\ lastCall.success)
  => OrgGone(lastCall.req[2])


\* ---- two getProfile calls of one identity

\* u1 signs up to create an organisation and gets no session (the email is
\* not confirmed yet): nothing is written but the metadata.  After sign-in
\* the profile is loaded by two callers of the same identity, u1 and u1b,
\* by either copy of getProfile.
InitTwin ==
  /\ customers = EmptyFn
  /\ custSeq = 0
  /\ transactions = <<>>
  /\ txSeq = 0
  /\ organizations = EmptyFn
  /\ user_profiles = EmptyFn
  /\ join_requests = EmptyFn
  /\ auth = EmptyFn
  /\ rls \in BOOLEAN
  /\ InitOtp
  /\ profile = [u \in Clients |-> NoProfile]
  /\ pc = [u \in Clients |-> "idle"]
  /\ loc = [u \in Clients |-> Done("", "")]
  /\ listed = [u \in Clients |-> EmptyFn]
  /\ detail = [u \in Clients |-> NoDetail]
  /\ lastCall = NoCall
  /\ won = [r \in Users \X Orgs |-> {}]
  /\ signedUpAs = [u \in Users |-> "none"]

NextTwin ==
  \/ \E o \in Orgs, r \in Roles :
       SignUpScreen_onSubmit("u1", FALSE, o, r, FALSE)
  \/ signIn("u1")
  \/ signOut("u1")
  \/ \E c \in {"u1", "u1b"} : getProfile(c)
  \/ \E c \in {"u1", "u1b"} : getProfileInsert(c)
  \/ \E c \in {"u1", "u1b"} : auth_getProfile(c)
  \/ \E c \in {"u1", "u1b"} : auth_getProfileInsert(c)

SpecTwin == InitTwin /\ [][NextTwin]_vars

\* C30: a getProfile call that went to create the missing row of its
\* identity ends without error, one row is stored for the identity, and the
\* call returns that row, whatever another call of the same identity did in
\* the meantime.
C30_ConcurrentGetProfileBothSucceed ==
  [][\A c \in Clients :
       (pc[c] \in {"gp_insert", "ag_insert"} /\ pc'[c] = "idle") =>
          /\ loc'[c].err = ""
          /\ IdOf(c) \in DOMAIN user_profiles'
          /\ profile'[c].id = IdOf(c)
          /\ profile'[c].org_id = user_profiles'[IdOf(c)].org_id
          /\ profile'[c].role = user_profiles'[IdOf(c)].role]_vars
=============================================================================
